---- MODULE Spec2Model ----
(***************************************************************************)
(* Model of src/transcribe-in-batches.js: the chunking / checkpoint /      *)
(* resume pipeline.                                                        *)
(*                                                                         *)
(* Text is modelled as a sequence of one-character strings, so that        *)
(* length, trimming, slicing and joining are computed as the JavaScript    *)
(* string methods compute them.  JavaScript indices are 0-based; the       *)
(* model keeps the 0-based index i of the source and reads element i+1 of  *)
(* a TLA+ sequence.  A character that a TLA+ string cannot spell is the    *)
(* string of its code point, such as "U+00A0".                             *)
(***************************************************************************)
EXTENDS Integers, Sequences, FiniteSets, TLC

(***************************************************************************)
(* Bounds of the model (not program constants).                            *)
(***************************************************************************)
\* longest transcript, in lines, drawn for the Chunk Builder specification
MaxLines == 4

\* most speaker turns of the transcript a run works on
MaxTurns == 2

\* most invocations of main() in one behaviour
MaxRuns == 2

\* most part files the user deletes in one behaviour
MaxDeletes == 1

(***************************************************************************)
(* String helpers: the methods of String.prototype the source uses.       *)
(***************************************************************************)
NL == "\n"
CR == "\r"

TAB == "\t"
VT == "U+000B"
FF == "\f"
NBSP == "U+00A0"
BOM == "U+FEFF"
LS == "U+2028"
PS == "U+2029"

\* the line terminators of ECMAScript: what "." of a regex does not match and
\* what "^" and "$" under the m flag stand next to
LineTerminators == {NL, CR, LS, PS}

\* the space separators (Unicode category Zs) other than U+0020 and U+00A0
SpaceSeparators ==
  {"U+1680", "U+2000", "U+2001", "U+2002", "U+2003", "U+2004", "U+2005",
   "U+2006", "U+2007", "U+2008", "U+2009", "U+200A", "U+202F", "U+205F",
   "U+3000"}

\* the characters String.prototype.trim / trimEnd and the regex class \s
\* remove: the white space and the line terminators of ECMAScript
WhiteSpace ==
  {TAB, VT, FF, " ", NBSP, BOM} \cup SpaceSeparators \cup LineTerminators

Min(a, b) == IF a < b THEN a ELSE b
Max(a, b) == IF a > b THEN a ELSE b

RECURSIVE trimEnd(_)
trimEnd(s) ==
  IF Len(s) > 0 /\ s[Len(s)] \in WhiteSpace
    THEN trimEnd(SubSeq(s, 1, Len(s) - 1))
    ELSE s

RECURSIVE trimStart(_)
trimStart(s) ==
  IF Len(s) > 0 /\ s[1] \in WhiteSpace
    THEN trimStart(SubSeq(s, 2, Len(s)))
    ELSE s

trim(s) == trimStart(trimEnd(s))

\* s.slice(start, end) with JavaScript's treatment of negative and
\* out-of-range indices (0-based, end exclusive)
slice(s, start, end) ==
  LET from == IF start < 0 THEN Max(Len(s) + start, 0) ELSE Min(start, Len(s))
      to   == IF end < 0 THEN Max(Len(s) + end, 0) ELSE Min(end, Len(s))
  IN  IF from < to THEN SubSeq(s, from + 1, to) ELSE <<>>

\* mutant: the first n characters are taken, slice(0, n) for slice(-n)
sliceHead(s, n) == slice(s, 0, n)

\* s.slice(-n) for n > 0: the last n characters (all of s when shorter)
sliceTail(s, n) == slice(s, 0 - n, Len(s))

\* array.join(sep)
RECURSIVE join(_, _)
join(arr, sep) ==
  IF Len(arr) = 0 THEN <<>>
  ELSE IF Len(arr) = 1 THEN arr[1]
  ELSE arr[1] \o sep \o join(Tail(arr), sep)

\* text.replace(/\r\n/g, "\n")
\* (every carriage return that a newline follows is dropped)
replaceCRLF(s) ==
  LET kept == SelectSeq([k \in 1..Len(s) |-> k],
                        LAMBDA k : ~(s[k] = CR /\ k < Len(s) /\ s[k + 1] = NL))
  IN  [j \in 1..Len(kept) |-> s[kept[j]]]

\* text.split("\n"): always at least one (possibly empty) piece
RECURSIVE splitLines(_)
splitLines(s) ==
  IF \E k \in 1..Len(s) : s[k] = NL
    THEN LET k == CHOOSE k \in 1..Len(s) :
                    s[k] = NL /\ \A j \in 1..(k - 1) : s[j] # NL
         IN  <<SubSeq(s, 1, k - 1)>> \o splitLines(SubSeq(s, k + 1, Len(s)))
    ELSE <<s>>

LowerCase ==
  <<"a", "b", "c", "d", "e", "f", "g", "h", "i", "j", "k", "l", "m",
    "n", "o", "p", "q", "r", "s", "t", "u", "v", "w", "x", "y", "z">>

UpperCase ==
  <<"A", "B", "C", "D", "E", "F", "G", "H", "I", "J", "K", "L", "M",
    "N", "O", "P", "Q", "R", "S", "T", "U", "V", "W", "X", "Y", "Z">>

\* the /i flag of a regex without the u flag: two characters match when
\* their upper-case forms are equal; no character outside ASCII folds to a
\* letter of the patterns of the source
UpperOf ==
  [c \in {LowerCase[k] : k \in 1..Len(LowerCase)} |->
     UpperCase[CHOOSE k \in 1..Len(LowerCase) : LowerCase[k] = c]]

toUpper(c) == IF c \in DOMAIN UpperOf THEN UpperOf[c] ELSE c

SPEAKER_TAG == <<"S", "P", "E", "A", "K", "E", "R", ":">>

(***************************************************************************)
(* Block Splitter.                                                         *)
(***************************************************************************)
\* /^SPEAKER:\s*\S+/i.test(line.trim())
looksLikeSpeakerLine(line) ==
  LET t == trim(line)
      n == Len(SPEAKER_TAG)
  IN  /\ Len(t) >= n
      /\ \A k \in 1..n : toUpper(t[k]) = SPEAKER_TAG[k]
      /\ \E k \in (n + 1)..Len(t) : t[k] \notin WhiteSpace

\* the closure flush() of splitIntoBlocks, on the pair (blocks, current)
flushBlock(st) ==
  IF Len(st.current) > 0
    THEN [blocks |-> Append(st.blocks, trimEnd(join(st.current, <<NL>>))),
          current |-> <<>>]
    ELSE st

\* one iteration of the for-loop over the lines
splitStep(st, line) ==
  IF looksLikeSpeakerLine(line)
    THEN LET f == flushBlock(st)
         IN  [blocks |-> f.blocks, current |-> Append(f.current, trimEnd(line))]
    ELSE IF Len(st.current) > 0
      THEN [blocks |-> st.blocks, current |-> Append(st.current, trimEnd(line))]
      ELSE st

RECURSIVE splitLoop(_, _)
splitLoop(st, lines) ==
  IF Len(lines) = 0 THEN st
  ELSE splitLoop(splitStep(st, Head(lines)), Tail(lines))

splitIntoBlocks(text) ==
  flushBlock(splitLoop([blocks |-> <<>>, current |-> <<>>],
                       splitLines(replaceCRLF(text)))).blocks

(***************************************************************************)
(* Chunk Builder.  MAX_CHUNK_CHARS is a module constant of the source and  *)
(* targetChars a parameter; both are parameters here so that the builder   *)
(* can be exercised at small sizes.                                        *)
(***************************************************************************)
BLOCK_SEP == <<NL, NL>>

\* mutant: the loop stops at the last full piece, i + max <= length
RECURSIVE sliceBlockFull(_, _, _)
sliceBlockFull(block, i, maxChunkChars) ==
  IF i + maxChunkChars <= Len(block)
    THEN <<slice(block, i, i + maxChunkChars)>>
           \o sliceBlockFull(block, i + maxChunkChars, maxChunkChars)
    ELSE <<>>

\* the inner for-loop slicing an oversized block
RECURSIVE sliceBlock(_, _, _)
sliceBlock(block, i, maxChunkChars) ==
  IF i < Len(block)
    THEN <<slice(block, i, i + maxChunkChars)>>
           \o sliceBlock(block, i + maxChunkChars, maxChunkChars)
    ELSE <<>>

\* (cur.length ? "\n\n" : "") + block
addition(cur, block) == (IF Len(cur) # 0 THEN BLOCK_SEP ELSE <<>>) \o block

\* mutant: the separator is left out of the sum, cur.length + block.length
exceedsMaxNoSep(cur, add, maxChunkChars) ==
  Len(cur) > 0 /\ Len(cur) + (Len(add) - Len(BLOCK_SEP)) > maxChunkChars

\* cur.length > 0 && cur.length + addition.length > MAX_CHUNK_CHARS
exceedsMax(cur, add, maxChunkChars) ==
  Len(cur) > 0 /\ Len(cur) + Len(add) > maxChunkChars

\* mutant: a buffer that holds a block is always flushed
reachedTargetAlways(cur, targetChars) == Len(cur) > 0

\* mutant: > for >=
reachedTargetStrict(cur, targetChars) == Len(cur) > 0 /\ Len(cur) > targetChars

\* cur.length > 0 && cur.length >= targetChars
reachedTarget(cur, targetChars) == Len(cur) > 0 /\ Len(cur) >= targetChars

\* chunks.push(cur.trimEnd()); cur = ""
flushChunk(st) == [chunks |-> Append(st.chunks, trimEnd(st.cur)), cur |-> <<>>]

\* mutant: the buffer is not flushed before the pieces are pushed
oversizedStepNoFlush(st, block, maxChunkChars) ==
  [chunks |-> st.chunks \o sliceBlock(block, 0, maxChunkChars), cur |-> st.cur]

\* the branch taken for a block longer than MAX_CHUNK_CHARS
oversizedStep(st, block, maxChunkChars) ==
  LET f == IF Len(trim(st.cur)) > 0 THEN flushChunk(st) ELSE st
  IN  [chunks |-> f.chunks \o sliceBlock(block, 0, maxChunkChars), cur |-> f.cur]

\* one iteration of the for-loop over the blocks
chunkStep(st, block, targetChars, maxChunkChars) ==
  IF Len(block) > maxChunkChars
    THEN oversizedStep(st, block, maxChunkChars)
    ELSE LET add == addition(st.cur, block)
             s1  == IF exceedsMax(st.cur, add, maxChunkChars)
                      THEN flushChunk(st) ELSE st
             s2  == IF reachedTarget(s1.cur, targetChars)
                      THEN flushChunk(s1) ELSE s1
         IN  [chunks |-> s2.chunks, cur |-> s2.cur \o addition(s2.cur, block)]

RECURSIVE chunkLoop(_, _, _, _)
chunkLoop(st, blocks, targetChars, maxChunkChars) ==
  IF Len(blocks) = 0 THEN st
  ELSE chunkLoop(chunkStep(st, Head(blocks), targetChars, maxChunkChars),
                 Tail(blocks), targetChars, maxChunkChars)

\* mutant: the buffer is pushed at the end whatever it holds
finalFlushAlways(st) == flushChunk(st).chunks

\* if (cur.trim().length > 0) chunks.push(cur.trimEnd())
finalFlush(st) ==
  IF Len(trim(st.cur)) > 0 THEN flushChunk(st).chunks ELSE st.chunks

buildChunksFromBlocks(blocks, targetChars, maxChunkChars) ==
  finalFlush(chunkLoop([chunks |-> <<>>, cur |-> <<>>],
                       blocks, targetChars, maxChunkChars))

(***************************************************************************)
(* Values that are not text.                                               *)
(***************************************************************************)
\* JavaScript null / undefined where a text may stand (a slot of the parts
\* array, output_text of a response); no text equals it
NULL == <<"null">>

\* a file that does not exist
NO_FILE == <<"ENOENT">>

\* JavaScript truthiness of a text-or-null value: null and "" are falsy
truthy(v) == v # NULL /\ Len(v) > 0

\* v || ""
orEmpty(v) == IF truthy(v) THEN v ELSE <<>>

\* String(n) for n >= 0
RECURSIVE toDigits(_)
toDigits(n) ==
  LET d == <<"0", "1", "2", "3", "4", "5", "6", "7", "8", "9">>
  IN  IF n < 10 THEN <<d[n + 1]>> ELSE toDigits(n \div 10) \o <<d[(n % 10) + 1]>>

(***************************************************************************)
(* Retry wrapper: the pure parts of withRetries.                           *)
(***************************************************************************)
\* default of the parameter tries
tries == 6

\* default of the parameter baseDelayMs
baseDelayMs == 750

\* Math.floor(Math.random() * 250) is an integer of 0..249; the model draws
\* it from the two ends of that range
JITTER_SPAN == 250

\* Math.floor(Math.random() * 250): any integer of 0..249
Jitters == 0..(JITTER_SPAN - 1)

RECURSIVE pow2(_)
pow2(n) == IF n = 0 THEN 1 ELSE 2 * pow2(n - 1)

\* mutant: the delay grows linearly with the attempt
backoffDelayLinear(attempt, jitter) == baseDelayMs * attempt + jitter

\* baseDelayMs * Math.pow(2, attempt - 1) + jitter
backoffDelay(attempt, jitter) == baseDelayMs * pow2(attempt - 1) + jitter

\* s holds pattern at some place, letter case apart
includesIgnoreCase(s, pattern) ==
  LET u == [k \in 1..Len(s) |-> toUpper(s[k])]
      v == [j \in 1..Len(pattern) |-> toUpper(pattern[j])]
  IN  \E k \in 1..(Len(s) - Len(pattern) + 1) :
        \A j \in 1..Len(pattern) : u[k + j - 1] = v[j]

\* the alternatives of /ETIMEDOUT|ECONNRESET|ENOTFOUND|fetch failed|timeout/i
TransientSignatures ==
  { <<"E", "T", "I", "M", "E", "D", "O", "U", "T">>,
    <<"E", "C", "O", "N", "N", "R", "E", "S", "E", "T">>,
    <<"E", "N", "O", "T", "F", "O", "U", "N", "D">>,
    <<"f", "e", "t", "c", "h", " ", "f", "a", "i", "l", "e", "d">>,
    <<"t", "i", "m", "e", "o", "u", "t">> }

\* /ETIMEDOUT|ECONNRESET|ENOTFOUND|fetch failed|timeout/i.test(msg)
matchesTransient(msg) ==
  \E pattern \in TransientSignatures : includesIgnoreCase(msg, pattern)

\* What a call throws.  kind tells what the value is: "error" an Error
\* object with its name and message, "object" another object (with a message
\* or without), "string" a string (value), "null", "undefined".  Its status
\* is err?.status ?? err?.response?.status, which may be undefined
\* (hasStatus = FALSE).  A message that is absent is the empty text.
Thrown(kind, hasStatus, status, name, message, value) ==
  [kind |-> kind, hasStatus |-> hasStatus, status |-> status,
   name |-> name, message |-> message, value |-> value]

\* an Error object
Err(hasStatus, status, name, message) ==
  Thrown("error", hasStatus, status, name, message, <<>>)

\* String(err): Error.prototype.toString for an Error object, the string
\* itself, "[object Object]", "null", "undefined"
toStringOf(err) ==
  CASE err.kind = "error" ->
         IF Len(err.name) = 0 THEN err.message
         ELSE IF Len(err.message) = 0 THEN err.name
         ELSE err.name \o <<":", " ">> \o err.message
    [] err.kind = "string" -> err.value
    [] err.kind = "object" ->
         <<"[", "o", "b", "j", "e", "c", "t", " ", "O", "b", "j", "e", "c",
           "t", "]">>
    [] err.kind = "null" -> <<"n", "u", "l", "l">>
    [] OTHER -> <<"u", "n", "d", "e", "f", "i", "n", "e", "d">>

\* String(err?.message || err): the message when there is one that is not
\* empty, String(err) otherwise
msgOf(err) ==
  IF Len(err.message) > 0 THEN err.message ELSE toStringOf(err)

\* mutant: status > 500 for status >= 500
retryableAbove500(err) ==
  \/ err.hasStatus /\ err.status = 429
  \/ err.hasStatus /\ err.status > 500 /\ err.status <= 599
  \/ matchesTransient(msgOf(err))

\* const retryable = status === 429 || (status >= 500 && status <= 599) || regex
retryable(err) ==
  \/ err.hasStatus /\ err.status = 429
  \/ err.hasStatus /\ err.status >= 500 /\ err.status <= 599
  \/ matchesTransient(msgOf(err))

\* mutant: the test of retryable is dropped, every error is retried
mustThrowOnlyLast(err, attempt) == attempt = tries

\* mutant: the test of the last attempt is dropped
mustThrowNotRetryable(err, attempt) == ~retryable(err)

\* if (!retryable || attempt === tries) throw err
mustThrow(err, attempt) == ~retryable(err) \/ attempt = tries

ERROR_NAME == <<"E", "r", "r", "o", "r">>

TIMEOUT_ERROR_NAME ==
  <<"T", "i", "m", "e", "o", "u", "t", "E", "r", "r", "o", "r">>

SYNTAX_ERROR_NAME ==
  <<"S", "y", "n", "t", "a", "x", "E", "r", "r", "o", "r">>

\* the errors the remote call is made to raise; TIMEOUT_ERROR has no message
BAD_REQUEST ==
  Err(TRUE, 400, ERROR_NAME,
      <<"4", "0", "0", " ", "B", "a", "d", " ", "R", "e", "q", "u", "e",
        "s", "t">>)

DOWNLOAD_TIMEOUT ==
  Err(TRUE, 400, ERROR_NAME,
      <<"4", "0", "0", " ", "T", "i", "m", "e", "o", "u", "t", " ", "w",
        "h", "i", "l", "e", " ", "d", "o", "w", "n", "l", "o", "a", "d",
        "i", "n", "g">>)

RATE_LIMIT ==
  Err(TRUE, 429, ERROR_NAME,
      <<"4", "2", "9", " ", "R", "a", "t", "e", " ", "l", "i", "m", "i",
        "t">>)

INTERNAL_ERROR ==
  Err(TRUE, 500, ERROR_NAME,
      <<"5", "0", "0", " ", "I", "n", "t", "e", "r", "n", "a", "l", " ",
        "e", "r", "r", "o", "r">>)

CONNECTION_RESET ==
  Err(FALSE, 0, ERROR_NAME,
      <<"c", "o", "n", "n", "e", "c", "t", " ", "E", "C", "O", "N", "N",
        "R", "E", "S", "E", "T", " ", "1", "0", ".", "0", ".", "0", ".",
        "1", ":", "4", "4", "3">>)

TIMEOUT_ERROR == Err(FALSE, 0, TIMEOUT_ERROR_NAME, <<>>)

UNEXPECTED_TOKEN ==
  Err(FALSE, 0, SYNTAX_ERROR_NAME,
      <<"u", "n", "e", "x", "p", "e", "c", "t", "e", "d", " ", "t", "o",
        "k", "e", "n">>)

Errors ==
  {BAD_REQUEST, DOWNLOAD_TIMEOUT, RATE_LIMIT, INTERNAL_ERROR,
   CONNECTION_RESET, TIMEOUT_ERROR, UNEXPECTED_TOKEN}

\* let lastErr: undefined until an attempt fails
NO_ERROR == Thrown("undefined", FALSE, 0, <<>>, <<>>, <<>>)

\* new Error("Empty model output_text received.") of summarizeChunk
EMPTY_OUTPUT ==
  Err(FALSE, 0, ERROR_NAME,
      <<"E", "m", "p", "t", "y", " ", "m", "o", "d", "e", "l", " ", "o",
        "u", "t", "p", "u", "t", "_", "t", "e", "x", "t", " ", "r", "e",
        "c", "e", "i", "v", "e", "d", ".">>)

\* new Error("Empty model output_text received during expansion.") of
\* expandSummaryNoNewFacts
EMPTY_EXPANSION ==
  Err(FALSE, 0, ERROR_NAME,
      <<"E", "m", "p", "t", "y", " ", "m", "o", "d", "e", "l", " ", "o",
        "u", "t", "p", "u", "t", "_", "t", "e", "x", "t", " ", "r", "e",
        "c", "e", "i", "v", "e", "d", " ", "d", "u", "r", "i", "n", "g",
        " ", "e", "x", "p", "a", "n", "s", "i", "o", "n", ".">>)

(***************************************************************************)
(* Checkpoint store.  The part files of the run folder are a function from *)
(* the 0-based part index to the file's text; its domain is the set of     *)
(* files that exist (partFilePath is injective in the index).              *)
(***************************************************************************)
\* exists(p)
exists(files, idx) == idx \in DOMAIN files

\* the files with part idx written (fs.writeFileSync creates or replaces)
writeFile(files, idx, text) ==
  [k \in DOMAIN files \cup {idx} |-> IF k = idx THEN text ELSE files[k]]

\* the files with part idx removed
removeFile(files, idx) == [k \in DOMAIN files \ {idx} |-> files[k]]

\* mutant: the slot of index i is loaded from the file of index i + 1
loadSlotNext(files, idx) ==
  IF exists(files, idx + 1) THEN trimEnd(files[idx + 1]) ELSE NULL

\* if (exists(p)) parts[i] = readText(p).trimEnd(), else null
loadSlot(files, idx) == IF exists(files, idx) THEN trimEnd(files[idx]) ELSE NULL

loadExistingParts(files, totalChunks) ==
  [k \in 1..totalChunks |-> loadSlot(files, k - 1)]

\* mutant: the section is not trimmed at its end
partSectionUntrimmed(content, idx) ==
  <<"P", "a", "r", "t", " ">> \o toDigits(idx + 1) \o <<NL, NL>>
    \o orEmpty(content)

\* `Part ${idx + 1}\n\n${content || ""}`.trimEnd()
partSection(content, idx) ==
  trimEnd(<<"P", "a", "r", "t", " ">> \o toDigits(idx + 1) \o <<NL, NL>>
            \o orEmpty(content))

combineParts(parts) ==
  join([k \in 1..Len(parts) |-> partSection(parts[k], k - 1)], <<NL, NL>>)

\* finalParts.map((p, idx) => (p ? null : idx + 1)).filter(Boolean)
missingParts(parts) == {k \in 1..Len(parts) : ~truthy(parts[k])}

(***************************************************************************)
(* Run Orchestrator: the parts of main() that are pure.                    *)
(***************************************************************************)
\* mutant: the text of the response is not trimmed
outputTextUntrimmed(raw) == orEmpty(raw)

\* (resp.output_text || "").trim()
outputText(raw) == trim(orEmpty(raw))

\* mutant: <= for <
needsExpansionLe(text, minSummaryChars) == Len(text) <= minSummaryChars

\* summary.length < MIN_CHUNK_SUMMARY_CHARS
needsExpansion(text, minSummaryChars) == Len(text) < minSummaryChars

\* the text handed to writeText for a part: summary.trimEnd()
partText(text) == trimEnd(text)

\* mutant: the test of the existing part is lost, every chunk is summarized
partFoundNever(parts, idx) == FALSE

\* mutant: the test is inverted, a chunk is skipped when it has no part
partFoundInverted(parts, idx) == ~truthy(parts[idx + 1])

\* if (existingParts[i]) { ... continue; }
partFound(parts, idx) == truthy(parts[idx + 1])

\* mutant: no bridge is passed on
bridgeForEmpty(tail, bridgeChars) == <<>>

\* const bridgeText = BRIDGE_CHARS > 0 ? lastSummaryTail : ""
bridgeFor(tail, bridgeChars) == IF bridgeChars > 0 THEN tail ELSE <<>>

\* if (BRIDGE_CHARS > 0) lastSummaryTail = text.slice(-BRIDGE_CHARS)
nextTail(tail, text, bridgeChars) ==
  IF bridgeChars > 0 THEN sliceTail(text, bridgeChars) ELSE tail

\* mutant: a skipped chunk leaves the tail as it was
tailOfExistingStale(tail, parts, idx, bridgeChars) == tail

\* line 393: if (BRIDGE_CHARS > 0) lastSummaryTail = existingParts[i].slice(..)
tailOfExisting(tail, parts, idx, bridgeChars) ==
  nextTail(tail, parts[idx + 1], bridgeChars)

\* "^SPEAKER:" of /^SPEAKER:\s*(.+)$/gim matches at index k of text: k starts
\* a line and the eight characters are the tag, letter case apart
tagAt(text, k) ==
  /\ k = 1 \/ text[k - 1] \in LineTerminators
  /\ k + Len(SPEAKER_TAG) - 1 <= Len(text)
  /\ \A j \in 1..Len(SPEAKER_TAG) : toUpper(text[k + j - 1]) = SPEAKER_TAG[j]

\* where the group (.+) starts for the tag at k, 0 when the pattern does not
\* match there.  \s* is greedy and runs over line ends: the name starts at
\* the first character after the tag that is not white space.  When white
\* space runs to the end of the text, \s* gives characters back until (.+)
\* has one that is not a line terminator: the last such character.
nameStart(text, k) ==
  LET p     == k + Len(SPEAKER_TAG)
      solid == {q \in p..Len(text) : text[q] \notin WhiteSpace}
      plain == {q \in p..Len(text) : text[q] \notin LineTerminators}
  IN  IF solid # {} THEN CHOOSE q \in solid : \A r \in solid : q <= r
      ELSE IF plain # {} THEN CHOOSE q \in plain : \A r \in plain : r <= q
      ELSE 0

\* where (.+)$ ends when it starts at q: the end of the line of q
nameEnd(text, q) ==
  CHOOSE e \in q..Len(text) :
    /\ \A r \in q..e : text[r] \notin LineTerminators
    /\ e = Len(text) \/ text[e + 1] \in LineTerminators

\* the replacement from index k on: each match, found from left to right,
\* becomes `${name.trim()}:`
RECURSIVE normalizeFrom(_, _)
normalizeFrom(text, k) ==
  LET at == {j \in k..Len(text) : tagAt(text, j) /\ nameStart(text, j) > 0}
  IN  IF at = {} THEN SubSeq(text, k, Len(text))
      ELSE LET j == CHOOSE m \in at : \A r \in at : m <= r
               q == nameStart(text, j)
               e == nameEnd(text, q)
           IN  SubSeq(text, k, j - 1) \o trim(SubSeq(text, q, e)) \o <<":">>
                 \o normalizeFrom(text, e + 1)

\* text.replace(/^SPEAKER:\s*(.+)$/gim, (_, name) => `${name.trim()}:`)
normalizeSpeakerTags(text) == normalizeFrom(text, 1)

\* The input of summarizeChunk is a template filled with the normalized
\* chunk, chunkIndex + 1, totalChunks and, when bridgeText is not empty, the
\* continuity notes; the request is these four values.
summarizeRequest(chunkText, chunkIndex, totalChunks, bridgeText) ==
  <<"summarize", normalizeSpeakerTags(chunkText), chunkIndex + 1, totalChunks,
    bridgeText>>

\* the request of expandSummaryNoNewFacts is a function of these two values
expandRequest(text, minChars) == <<"expand", text, minChars, 0, <<>>>>

(***************************************************************************)
(* Run identity.  Paths are written with "/" as their separator, which     *)
(* path.basename takes as one on every platform.                           *)
(***************************************************************************)
\* the largest index of s that holds c, 0 when there is none
lastIndexOf(s, c) ==
  LET at == {k \in 1..Len(s) : s[k] = c}
  IN  IF at = {} THEN 0 ELSE CHOOSE k \in at : \A j \in at : j <= k

\* the base name of path.basename and path.extname (POSIX): the separators
\* at the end of the path are passed over, and the base name runs from the
\* separator before it (0-based baseStart) to its last character (baseEnd)
baseEnd(filePath) ==
  LET at == {k \in 1..Len(filePath) : filePath[k] # "/"}
  IN  IF at = {} THEN 0 ELSE CHOOSE k \in at : \A j \in at : j <= k

baseStart(filePath) ==
  lastIndexOf(SubSeq(filePath, 1, baseEnd(filePath)), "/")

\* path.basename(filePath)
basename(filePath) ==
  SubSeq(filePath, baseStart(filePath) + 1, baseEnd(filePath))

\* path.extname(filePath): from the last "." of the base name to its end,
\* empty when there is none, when it is the first character of the base
\* name, and when the base name is ".."
extname(filePath) ==
  LET base == basename(filePath)
      dot  == lastIndexOf(base, ".")
  IN  IF dot <= 1 \/ base = <<".", ".">>
        THEN <<>>
        ELSE SubSeq(base, dot, Len(base))

\* path.basename(filePath, ext): the base name without the suffix ext.  A
\* base name that is ext itself is kept; when the base name is only an end
\* of ext, the scan of the library runs into the separator before it finds
\* a difference and the rest of the path is returned, separators included
basenameWithout(filePath, ext) ==
  LET base == basename(filePath)
      n    == Len(base) - Len(ext)
  IN  IF Len(ext) = 0 \/ Len(ext) > Len(filePath) THEN base
      ELSE IF ext = filePath THEN <<>>
      ELSE IF n > 0 /\ SubSeq(base, n + 1, Len(base)) = ext
        THEN SubSeq(base, 1, n)
      ELSE IF n < 0 /\ SubSeq(ext, 1 - n, Len(ext)) = base
        THEN SubSeq(filePath, baseStart(filePath) + 1, Len(filePath))
      ELSE base

\* the characters \x00-\x1F
ControlChars ==
  {"U+0000", "U+0001", "U+0002", "U+0003", "U+0004", "U+0005",
   "U+0006", "U+0007", "U+0008", TAB, NL, VT,
   FF, CR, "U+000E", "U+000F", "U+0010", "U+0011",
   "U+0012", "U+0013", "U+0014", "U+0015", "U+0016", "U+0017",
   "U+0018", "U+0019", "U+001A", "U+001B", "U+001C", "U+001D",
   "U+001E", "U+001F"}

\* the class [<>:"/\\|?*\x00-\x1F]
IllegalChars ==
  {"<", ">", ":", "\"", "/", "\\", "|", "?", "*"} \cup ControlChars

\* .replace(/\s+/g, " "): every run of whitespace becomes one space
collapseSpaces(s) ==
  LET kept == SelectSeq([k \in 1..Len(s) |-> k],
                LAMBDA k : ~(s[k] \in WhiteSpace /\ k > 1
                               /\ s[k - 1] \in WhiteSpace))
  IN  [j \in 1..Len(kept) |->
         IF s[kept[j]] \in WhiteSpace THEN " " ELSE s[kept[j]]]

safeFolderNameFromPath(filePath) ==
  LET base == basenameWithout(filePath, extname(filePath))
  IN  trim(collapseSpaces(SelectSeq(base, LAMBDA c : c \notin IllegalChars)))

(***************************************************************************)
(* Inputs.                                                                 *)
(***************************************************************************)
\* the input file of the runs whose input file is not replaced: "in/t.txt"
INPUT_TRANSCRIPT_PATH == <<"i", "n", "/", "t", ".", "t", "x", "t">>

\* one speaker turn: "SPEAKER: A\nhi"
TURN == SPEAKER_TAG \o <<" ", "A", NL, "h", "i">>

RECURSIVE turns(_)
turns(n) == IF n = 0 THEN <<>> ELSE turns(n - 1) \o <<NL>> \o TURN

\* a transcript of n speaker turns after a line that precedes every tag
transcriptOf(n) == <<"x">> \o turns(n)

\* the configured thresholds of a run (TARGET_CHUNK_CHARS, MAX_CHUNK_CHARS,
\* MIN_CHUNK_SUMMARY_CHARS, BRIDGE_CHARS), at small sizes
MainConfigs ==
  { [targetChars |-> 10, maxChunkChars |-> 25, minSummaryChars |-> 2,
     bridgeChars |-> 1],
    [targetChars |-> 30, maxChunkChars |-> 30, minSummaryChars |-> 0,
     bridgeChars |-> 0] }

\* what the remote service may put in output_text: absent, blank, a text
\* shorter than the minimum of the first configuration, a longer one
RawOutputs == {NULL, <<" ">>, <<" ", "a">>, <<"a", "b", NL>>}

\* the lines a transcript of the Chunk Builder specification is made of
SampleLines ==
  { SPEAKER_TAG \o <<" ", "A">>,
    <<BOM, "s", "p", "e", "a", "k", "e", "r", ":", "B", NBSP>>,
    <<"h", "i">>,
    <<>>,
    <<"t", "e", "x", "t", " ", "o", "f", " ", "s", "i", "x", "t", "e", "e",
      "n", "!", CR>>,
    SPEAKER_TAG }

\* the pairs <<targetChars, maxChunkChars>> of the Chunk Builder specification
Thresholds == {<<10, 12>>, <<12, 12>>, <<20, 23>>, <<25, 40>>, <<40, 40>>}

SampleTranscripts ==
  {join(ls, <<NL>>) : ls \in UNION {[1..n -> SampleLines] : n \in 0..MaxLines}}

(***************************************************************************)
(* State.                                                                  *)
(***************************************************************************)
VARIABLES
  \* the file system
  inputPath,        \* path of the input file
  transcript,       \* text of the input file
  partFiles,        \* part files of the run folder: index -> text
  metaFile,         \* run_meta.json, or NO_FILE
  combinedFile,     \* combined_summary.txt, or NO_FILE
  \* configuration
  cfg,
  \* the process running main()
  pc,               \* "idle" | "loop" | "summarize" | "expand" | "done" | "aborted"
  chunks,
  existingParts,
  i,
  lastSummaryTail,
  bridgeText,
  summary,
  attempt,          \* loop variable of withRetries
  lastErr,          \* the error the last failed attempt raised, or NO_ERROR
  \* the remote service
  det,              \* TRUE: the same request always gets the same output_text
  memo,             \* request -> output_text, what a det service has answered
  \* history
  runNo,            \* invocations of main() so far
  nDeletes,         \* part files deleted by the user so far
  deleted,          \* indices deleted since the last invocation started
  startDeleted,     \* indices deleted between the previous invocation and this
  afterDone,        \* the previous invocation ran to completion
  startParts,       \* partFiles when this invocation started
  startCombined,    \* combinedFile when this invocation started
  calls,            \* what this invocation did per index, in order:
                    \* <<"skip" | "summarize" | "expand", index, bridge>>
  writes,           \* indices whose part this invocation wrote, in order
  passes,           \* index -> [first, expanded] of the parts it wrote
  sources,          \* index -> the chunk text each part was last written for
  nAttempts,        \* calls of fn() by the current withRetries
  nFails,           \* those that raised
  nDelays,          \* sleeps the current withRetries has begun
  delay,            \* const delay of the catch block: the sleep under way, in
                    \* ms (0 when the process is not in sleep(delay))
  wr,               \* "none" | "running" | "sleeping" | "returned" | "threw"
  thrown,           \* the error that ended the invocation, or NO_ERROR
  missing,          \* indices (1-based) the warning of the last combine named
  ref,              \* outcome of the first run that summarized every chunk
  \* the Chunk Builder specification
  cbPc,             \* "off" | "input" | "split" | "built"
  cbText,
  cbTarget,
  cbMax,
  cbBlocks,
  cbChunks

fileVars == <<inputPath, transcript, partFiles, metaFile, combinedFile>>
procVars == <<pc, chunks, existingParts, i, lastSummaryTail, bridgeText,
              summary, attempt, lastErr>>
retryVars == <<nAttempts, nFails, nDelays, delay, wr>>
runVars == <<runNo, startDeleted, afterDone, startParts, startCombined>>
cbVars == <<cbPc, cbText, cbTarget, cbMax, cbBlocks, cbChunks>>

vars == <<fileVars, cfg, sources, procVars, det, memo, runVars, nDeletes,
          deleted,
          calls, writes, passes, retryVars, thrown, missing, ref, cbVars>>

NO_REF == [set |-> FALSE, parts |-> <<>>, combined |-> NO_FILE, calls |-> <<>>]

NO_PARTS == [k \in {} |-> <<>>]

(***************************************************************************)
(* The remote service.  When det holds it answers a request it has seen    *)
(* with the output_text it gave before; whether a call fails is free.      *)
(***************************************************************************)
consistent(req, raw) == det => (req \in DOMAIN memo => memo[req] = raw)

remember(req, raw) ==
  IF det
    THEN [k \in DOMAIN memo \cup {req} |-> IF k = req THEN raw ELSE memo[k]]
    ELSE memo

(***************************************************************************)
(* Initial state: nothing has run, the run folder holds no file.           *)
(***************************************************************************)
ProcIdle ==
  /\ pc = "idle"
  /\ chunks = <<>>
  /\ existingParts = <<>>
  /\ i = 0
  /\ lastSummaryTail = <<>>
  /\ bridgeText = <<>>
  /\ summary = <<>>
  /\ attempt = 0
  /\ lastErr = NO_ERROR

HistoryEmpty ==
  /\ runNo = 0
  /\ nDeletes = 0
  /\ deleted = {}
  /\ startDeleted = {}
  /\ afterDone = FALSE
  /\ startParts = NO_PARTS
  /\ startCombined = NO_FILE
  /\ calls = <<>>
  /\ writes = <<>>
  /\ passes = NO_PARTS
  /\ sources = NO_PARTS
  /\ nAttempts = 0
  /\ nFails = 0
  /\ nDelays = 0
  /\ delay = 0
  /\ wr = "none"
  /\ thrown = NO_ERROR
  /\ missing = {}
  /\ ref = NO_REF

DiskEmpty ==
  /\ inputPath = INPUT_TRANSCRIPT_PATH
  /\ partFiles = NO_PARTS
  /\ metaFile = NO_FILE
  /\ combinedFile = NO_FILE

CbOff ==
  /\ cbPc = "off"
  /\ cbText = <<>>
  /\ cbTarget = 0
  /\ cbMax = 0
  /\ cbBlocks = <<>>
  /\ cbChunks = <<>>

InitRun ==
  /\ transcript \in {transcriptOf(n) : n \in 0..MaxTurns}
  /\ cfg \in MainConfigs
  /\ memo = NO_PARTS
  /\ DiskEmpty
  /\ ProcIdle
  /\ HistoryEmpty
  /\ CbOff

\* the remote service is free to answer a repeated request differently
Init == InitRun /\ det = FALSE

\* the remote service returns the same text for the same request
InitResume == InitRun /\ det = TRUE

(***************************************************************************)
(* main(), lines 349-386: read the transcript, split and chunk it, write   *)
(* the run metadata, load the parts that exist.                            *)
(***************************************************************************)
runMeta(cs, now) ==
  [targetChunkChars |-> cfg.targetChars,
   maxChunkChars    |-> cfg.maxChunkChars,
   minSummaryChars  |-> cfg.minSummaryChars,
   createdAt        |-> now,
   totalChunks      |-> Len(cs)]

StartRun ==
  /\ pc \in {"idle", "done", "aborted"}
  /\ runNo < MaxRuns
  /\ LET cs == buildChunksFromBlocks(splitIntoBlocks(transcript),
                                     cfg.targetChars, cfg.maxChunkChars)
     IN  /\ chunks' = cs
         /\ metaFile' = runMeta(cs, runNo + 1)
         /\ existingParts' = loadExistingParts(partFiles, Len(cs))
  /\ lastSummaryTail' = <<>>
  /\ i' = 0
  /\ pc' = "loop"
  /\ bridgeText' = <<>>
  /\ summary' = <<>>
  /\ attempt' = 0
  /\ lastErr' = NO_ERROR
  /\ runNo' = runNo + 1
  /\ startDeleted' = deleted
  /\ deleted' = {}
  /\ afterDone' = (pc = "done")
  /\ startParts' = partFiles
  /\ startCombined' = combinedFile
  /\ calls' = <<>>
  /\ writes' = <<>>
  /\ passes' = NO_PARTS
  /\ nAttempts' = 0
  /\ nFails' = 0
  /\ nDelays' = 0
  /\ delay' = 0
  /\ wr' = "none"
  /\ thrown' = NO_ERROR
  /\ missing' = {}
  /\ UNCHANGED <<inputPath, transcript, partFiles, combinedFile, cfg,
                 sources, det, memo,
                 nDeletes, ref, cbVars>>

(***************************************************************************)
(* The for-loop of main(), lines 388-420.                                  *)
(***************************************************************************)
\* lines 391-395: the part exists, skip the chunk
SkipChunk ==
  /\ pc = "loop"
  /\ i < Len(chunks)
  /\ partFound(existingParts, i)
  /\ lastSummaryTail' =
       tailOfExisting(lastSummaryTail, existingParts, i, cfg.bridgeChars)
  /\ calls' = Append(calls, <<"skip", i, <<>>>>)
  /\ i' = i + 1
  /\ UNCHANGED <<fileVars, cfg, sources,
                 pc, chunks, existingParts, bridgeText, summary,
                 attempt, lastErr, det, memo, runVars, nDeletes, deleted,
                 writes, passes, retryVars, thrown, missing, ref, cbVars>>

\* withRetries entered: attempt = 1, nothing tried yet.  (The statement
\* after the loop, throw lastErr, is reached by no run: the attempt numbered
\* tries either returns or throws.)
RetryStart ==
  /\ attempt' = 1
  /\ lastErr' = NO_ERROR
  /\ nAttempts' = 0
  /\ nFails' = 0
  /\ nDelays' = 0
  /\ delay' = 0
  /\ wr' = "running"

\* lines 397-406 and 248-264: summarizeChunk is called with the bridge
BeginSummarize ==
  /\ pc = "loop"
  /\ i < Len(chunks)
  /\ ~partFound(existingParts, i)
  /\ bridgeText' = bridgeFor(lastSummaryTail, cfg.bridgeChars)
  /\ calls' = Append(calls, <<"summarize", i, bridgeText'>>)
  /\ pc' = "summarize"
  /\ RetryStart
  /\ UNCHANGED <<fileVars, cfg, sources,
                 chunks, existingParts, i, lastSummaryTail,
                 summary, det, memo, runVars, nDeletes, deleted, writes,
                 passes, thrown, missing, ref, cbVars>>

(***************************************************************************)
(* withRetries, lines 217-246, around the remote call of summarizeChunk    *)
(* (pc = "summarize") and of expandSummaryNoNewFacts (pc = "expand").      *)
(***************************************************************************)
InRetry ==
  pc \in {"summarize", "expand"} /\ wr = "running" /\ attempt <= tries

\* lines 223-241: fn() raises a retryable error before the last attempt;
\* the delay is computed and the process waits in sleep(delay)
RemoteFailsRetry ==
  /\ InRetry
  /\ \E err \in Errors :
       /\ ~mustThrow(err, attempt)
       /\ lastErr' = err
       /\ \E jitter \in Jitters : delay' = backoffDelay(attempt, jitter)
  /\ nAttempts' = nAttempts + 1
  /\ nFails' = nFails + 1
  /\ nDelays' = nDelays + 1
  /\ wr' = "sleeping"
  /\ UNCHANGED <<fileVars, cfg, sources,
                 pc, chunks, existingParts, i, lastSummaryTail,
                 bridgeText, summary, attempt, det, memo, runVars,
                 nDeletes, deleted, calls, writes, passes, thrown, missing,
                 ref, cbVars>>

\* line 241 then line 220: the sleep is over, the catch block is left (its
\* delay is gone) and the loop goes to its next attempt
SleepEnds ==
  /\ pc \in {"summarize", "expand"}
  /\ wr = "sleeping"
  /\ attempt' = attempt + 1
  /\ delay' = 0
  /\ wr' = "running"
  /\ UNCHANGED <<fileVars, cfg, sources,
                 pc, chunks, existingParts, i, lastSummaryTail,
                 bridgeText, summary, lastErr, det, memo, runVars,
                 nDeletes, deleted, calls, writes, passes, nAttempts, nFails,
                 nDelays, thrown, missing, ref, cbVars>>

\* fn() raises an error that is not retryable, or the last attempt fails:
\* the error leaves withRetries, summarizeChunk / expandSummaryNoNewFacts and
\* main(), and the handler of lines 439-442 exits the process
RemoteFailsThrow ==
  /\ InRetry
  /\ \E err \in Errors :
       /\ mustThrow(err, attempt)
       /\ lastErr' = err
       /\ thrown' = err
  /\ nAttempts' = nAttempts + 1
  /\ nFails' = nFails + 1
  /\ delay' = 0
  /\ wr' = "threw"
  /\ pc' = "aborted"
  /\ UNCHANGED <<fileVars, cfg, sources,
                 chunks, existingParts, i, lastSummaryTail,
                 bridgeText, summary, attempt, det, memo, runVars, nDeletes,
                 deleted, calls, writes, passes, nDelays, missing, ref,
                 cbVars>>

\* line 222, return await fn(): withRetries returns, its locals are gone
RetryReturned ==
  /\ nAttempts' = nAttempts + 1
  /\ wr' = "returned"
  /\ attempt' = 0
  /\ lastErr' = NO_ERROR
  /\ delay' = 0

\* fn() returns a response to the summarize request; lines 274-276
SummarizeReturns ==
  /\ pc = "summarize"
  /\ InRetry
  /\ \E raw \in RawOutputs :
       LET req == summarizeRequest(chunks[i + 1], i, Len(chunks), bridgeText)
           text == outputText(raw)
       IN  /\ consistent(req, raw)
           /\ memo' = remember(req, raw)
           /\ IF Len(text) = 0
                THEN /\ pc' = "aborted"
                     /\ thrown' = EMPTY_OUTPUT
                     /\ UNCHANGED <<summary, passes>>
                ELSE /\ pc' = "summarized"
                     /\ summary' = text
                     /\ passes' = writeFile(passes, i,
                                    [first |-> text, expanded |-> NULL])
                     /\ UNCHANGED thrown
  /\ RetryReturned
  /\ UNCHANGED <<fileVars, cfg, sources,
                 chunks, existingParts, i, lastSummaryTail,
                 bridgeText, det, runVars, nDeletes, deleted, calls, writes,
                 nFails, nDelays, missing, ref, cbVars>>

\* lines 408-413: the first pass is under the minimum, expand it
BeginExpand ==
  /\ pc = "summarized"
  /\ needsExpansion(summary, cfg.minSummaryChars)
  /\ calls' = Append(calls, <<"expand", i, <<>>>>)
  /\ pc' = "expand"
  /\ RetryStart
  /\ UNCHANGED <<fileVars, cfg, sources,
                 chunks, existingParts, i, lastSummaryTail,
                 bridgeText, summary, det, memo, runVars, nDeletes, deleted,
                 writes, passes, thrown, missing, ref, cbVars>>

\* fn() returns a response to the expand request; lines 308-310
ExpandReturns ==
  /\ pc = "expand"
  /\ InRetry
  /\ \E raw \in RawOutputs :
       LET req == expandRequest(summary, cfg.minSummaryChars)
           text == outputText(raw)
       IN  /\ consistent(req, raw)
           /\ memo' = remember(req, raw)
           /\ IF Len(text) = 0
                THEN /\ pc' = "aborted"
                     /\ thrown' = EMPTY_EXPANSION
                     /\ UNCHANGED <<summary, passes>>
                ELSE /\ pc' = "expanded"
                     /\ summary' = text
                     /\ passes' = writeFile(passes, i,
                                    [first |-> passes[i].first, expanded |-> text])
                     /\ UNCHANGED thrown
  /\ RetryReturned
  /\ UNCHANGED <<fileVars, cfg, sources,
                 chunks, existingParts, i, lastSummaryTail,
                 bridgeText, det, runVars, nDeletes, deleted, calls, writes,
                 nFails, nDelays, missing, ref, cbVars>>

\* mutant: the part is checkpointed whatever the length of the first pass
SummaryFinalEarly == pc \in {"summarized", "expanded"}

\* the summary in hand is final: long enough after the first pass, or expanded
SummaryFinal ==
  \/ pc = "summarized" /\ ~needsExpansion(summary, cfg.minSummaryChars)
  \/ pc = "expanded"

\* the locals of the loop body and of withRetries go out of scope
BodyLeft ==
  /\ bridgeText' = <<>>
  /\ summary' = <<>>
  /\ attempt' = 0
  /\ lastErr' = NO_ERROR
  /\ nAttempts' = 0
  /\ nFails' = 0
  /\ nDelays' = 0
  /\ delay' = 0
  /\ wr' = "none"

\* lines 416-419: checkpoint the part, carry its tail to the next chunk
WritePart ==
  /\ SummaryFinal
  /\ partFiles' = writeFile(partFiles, i, partText(summary))
  /\ lastSummaryTail' = nextTail(lastSummaryTail, summary, cfg.bridgeChars)
  /\ writes' = Append(writes, i)
  /\ i' = i + 1
  /\ pc' = "loop"
  /\ BodyLeft
  /\ sources' = writeFile(sources, i, chunks[i + 1])
  /\ UNCHANGED <<inputPath, transcript, metaFile, combinedFile, cfg, chunks,
                 existingParts, det, memo, runVars, nDeletes, deleted, calls,
                 passes, thrown, missing, ref, cbVars>>

(***************************************************************************)
(* main(), lines 422-436: reload the parts, warn of the missing ones,      *)
(* write the combined document.                                            *)
(***************************************************************************)
\* this invocation found no part and summarized every chunk itself
Uninterrupted == \A k \in 0..(Len(chunks) - 1) : ~exists(startParts, k)

FinishRun ==
  /\ pc = "loop"
  /\ i >= Len(chunks)
  /\ LET finalParts == loadExistingParts(partFiles, Len(chunks))
     IN  /\ combinedFile' = combineParts(finalParts)
         /\ missing' = missingParts(finalParts)
  /\ pc' = "done"
  /\ ref' = IF ~ref.set /\ Uninterrupted
              THEN [set |-> TRUE, parts |-> partFiles,
                    combined |-> combinedFile', calls |-> calls]
              ELSE ref
  /\ UNCHANGED <<inputPath, transcript, partFiles, metaFile, cfg, sources,
                 chunks, existingParts,
                 i, lastSummaryTail, bridgeText, summary, attempt, lastErr,
                 det, memo, runVars, nDeletes, deleted, calls, writes, passes,
                 retryVars, thrown, cbVars>>

(***************************************************************************)
(* The user deletes a part file while no invocation is running.            *)
(***************************************************************************)
\* The memory of the process that exited is gone by then: the locals of
\* its last loop body and what was recorded of its last withRetries are dropped.
DeletePart ==
  /\ pc \in {"done", "aborted"}
  /\ nDeletes < MaxDeletes
  /\ \E k \in DOMAIN partFiles :
       /\ partFiles' = removeFile(partFiles, k)
       /\ deleted' = deleted \cup {k}
  /\ nDeletes' = nDeletes + 1
  /\ BodyLeft
  /\ thrown' = NO_ERROR
  /\ UNCHANGED <<inputPath, transcript, metaFile, combinedFile, cfg,
                 sources, pc, chunks,
                 existingParts, i, lastSummaryTail, det, memo, runVars, calls,
                 writes, passes, missing, ref, cbVars>>

Next ==
  \/ StartRun
  \/ SkipChunk
  \/ BeginSummarize
  \/ RemoteFailsRetry
  \/ SleepEnds
  \/ RemoteFailsThrow
  \/ SummarizeReturns
  \/ BeginExpand
  \/ ExpandReturns
  \/ WritePart
  \/ FinishRun
  \/ DeletePart

Spec == Init /\ [][Next]_vars

SpecResume == InitResume /\ [][Next]_vars

(***************************************************************************)
(* Runs during which the user may delete a part file.  The process gives   *)
(* the processor away at every await (the remote call, the sleep of        *)
(* withRetries), so a deletion can fall at any point of the loop.          *)
(***************************************************************************)
DeletePartRunning ==
  /\ pc \in {"loop", "summarize", "summarized", "expand", "expanded"}
  /\ nDeletes < MaxDeletes
  /\ \E k \in DOMAIN partFiles :
       /\ partFiles' = removeFile(partFiles, k)
       /\ deleted' = deleted \cup {k}
  /\ nDeletes' = nDeletes + 1
  /\ UNCHANGED <<inputPath, transcript, metaFile, combinedFile, cfg,
                 sources, procVars, det, memo,
                 runVars, calls, writes, passes, retryVars, thrown, missing,
                 ref, cbVars>>

\* the steps of the program
RunStep ==
  \/ StartRun
  \/ SkipChunk
  \/ BeginSummarize
  \/ RemoteFailsRetry
  \/ SleepEnds
  \/ RemoteFailsThrow
  \/ SummarizeReturns
  \/ BeginExpand
  \/ ExpandReturns
  \/ WritePart
  \/ FinishRun

NextGaps == RunStep \/ DeletePartRunning

SpecGaps == Init /\ [][NextGaps]_vars

(***************************************************************************)
(* Runs between which the input may be replaced: the text of the input     *)
(* file is edited, or another file is given whose path yields the same run *)
(* identity and so the same run folder.  (A path with another run identity *)
(* leads to another folder, whose runs are those of Spec.)                 *)
(***************************************************************************)
\* one speaker turn of another speaker: "SPEAKER: B\nyo"
TURN_B == SPEAKER_TAG \o <<" ", "B", NL, "y", "o">>

\* the input files: their paths and texts.  The first three yield the run
\* identity "t", the last "u".
Inputs ==
  { [path |-> INPUT_TRANSCRIPT_PATH, text |-> transcriptOf(1)],
    [path |-> <<"i", "n", "/", "t", ".", "m", "d">>,
     text |-> <<"x", NL>> \o TURN_B \o <<NL>> \o TURN_B],
    [path |-> <<"a", "l", "t", "/", " ", "t", "?", "U+0007", ".", "t", "x", "t">>,
     text |-> transcriptOf(1)],
    [path |-> <<"i", "n", "/", "u", ".", "t", "x", "t">>,
     text |-> <<"x", NL>> \o TURN_B] }

InitEdit ==
  /\ \E in \in Inputs : inputPath = in.path /\ transcript = in.text
  /\ cfg \in MainConfigs
  /\ det = FALSE
  /\ memo = NO_PARTS
  /\ partFiles = NO_PARTS
  /\ metaFile = NO_FILE
  /\ combinedFile = NO_FILE
  /\ ProcIdle
  /\ HistoryEmpty
  /\ CbOff

\* between two invocations (another one follows: runNo < MaxRuns)
ReplaceInput ==
  /\ pc \in {"done", "aborted"}
  /\ runNo < MaxRuns
  /\ \E in \in Inputs :
       /\ safeFolderNameFromPath(in.path) = safeFolderNameFromPath(inputPath)
       /\ in.path # inputPath
       /\ inputPath' = in.path
       /\ transcript' = in.text
  /\ BodyLeft
  /\ thrown' = NO_ERROR
  /\ UNCHANGED <<partFiles, metaFile, combinedFile, cfg, sources, pc, chunks,
                 existingParts, i, lastSummaryTail, det, memo, runVars,
                 nDeletes, deleted, calls, writes, passes, missing, ref,
                 cbVars>>

NextEdit == Next \/ ReplaceInput

SpecEdit == InitEdit /\ [][NextEdit]_vars

(***************************************************************************)
(* The retry wrapper under fairness.  Every await of withRetries ends: the *)
(* remote call returns or raises, and sleep(delay) resolves after delay    *)
(* milliseconds.  So a step of the wrapper that is possible is taken.  The *)
(* transcript has one speaker turn.                                        *)
(***************************************************************************)
InitRetry == InitRun /\ transcript = transcriptOf(1) /\ det = FALSE

RetryStep ==
  \/ RemoteFailsRetry
  \/ SleepEnds
  \/ RemoteFailsThrow
  \/ SummarizeReturns
  \/ ExpandReturns

SpecRetry == InitRetry /\ [][Next]_vars /\ WF_vars(RetryStep)

(***************************************************************************)
(* Runs on transcripts of three speaker turns with the thresholds          *)
(* targetChars = 100 and maxChunkChars = 200.  A turn is the line          *)
(* "SPEAKER: A" and a line of n characters: a block of 11 + n characters.  *)
(***************************************************************************)
scenarioTurn(n) == SPEAKER_TAG \o <<" ", "A", NL>> \o [k \in 1..n |-> "h"]

scenarioTranscript(ns) ==
  join([k \in 1..Len(ns) |-> scenarioTurn(ns[k])], <<NL>>)

\* the lengths of the second lines of the three turns
ScenarioTurns ==
  { <<2, 2, 2>>, <<2, 2, 88>>, <<88, 2, 2>>, <<38, 38, 2>>, <<88, 88, 88>> }

ScenarioConfigs ==
  { [targetChars |-> 100, maxChunkChars |-> 200, minSummaryChars |-> m,
     bridgeChars |-> 1] : m \in {0, 2} }

\* every transcript with a minimum of 0, the shortest one with a minimum
\* that asks for expansions
InitScenario ==
  /\ transcript \in {scenarioTranscript(ns) : ns \in ScenarioTurns}
  /\ cfg \in ScenarioConfigs
  /\ cfg.minSummaryChars > 0 => transcript = scenarioTranscript(<<2, 2, 2>>)
  /\ det = FALSE
  /\ memo = NO_PARTS
  /\ DiskEmpty
  /\ ProcIdle
  /\ HistoryEmpty
  /\ CbOff

SpecScenario == InitScenario /\ [][Next]_vars

(***************************************************************************)
(* Runs on transcripts that hold no speaker line (and on one that does).   *)
(***************************************************************************)
\* "", "x", "SPEAKER:", "SPEAKER: \n", "hi\r\nspeaker:\n\n", ":SPEAKER A"
NoSpeakerTranscripts ==
  { <<>>,
    <<"x">>,
    SPEAKER_TAG,
    SPEAKER_TAG \o <<" ", NL>>,
    SPEAKER_TAG \o <<NBSP, FF>>,
    <<"h", "i", CR, NL, "s", "p", "e", "a", "k", "e", "r", ":", NL, NL>>,
    <<":", "S", "P", "E", "A", "K", "E", "R", " ", "A">> }

InitEmpty ==
  /\ transcript \in NoSpeakerTranscripts \cup {transcriptOf(1)}
  /\ cfg \in MainConfigs
  /\ det = FALSE
  /\ memo = NO_PARTS
  /\ DiskEmpty
  /\ ProcIdle
  /\ HistoryEmpty
  /\ CbOff

SpecEmpty == InitEmpty /\ [][Next]_vars

(***************************************************************************)
(* The Chunk Builder on its own: a transcript and a pair of thresholds are *)
(* drawn, the transcript is split into blocks, the blocks are chunked.     *)
(***************************************************************************)
InitChunks ==
  /\ cbPc = "input"
  /\ cbText \in SampleTranscripts
  /\ \E th \in Thresholds : cbTarget = th[1] /\ cbMax = th[2]
  /\ cbBlocks = <<>>
  /\ cbChunks = <<>>
  /\ transcript = <<>>
  /\ cfg \in {c \in MainConfigs : c.bridgeChars = 1}
  /\ det = FALSE
  /\ memo = NO_PARTS
  /\ DiskEmpty
  /\ ProcIdle
  /\ HistoryEmpty

mainVars == <<fileVars, cfg, sources, procVars, det, memo, runVars, nDeletes,
              deleted,
              calls, writes, passes, retryVars, thrown, missing, ref>>

CbSplit ==
  /\ cbPc = "input"
  /\ cbBlocks' = splitIntoBlocks(cbText)
  /\ cbPc' = "split"
  /\ UNCHANGED <<mainVars, cbText, cbTarget, cbMax, cbChunks>>

CbBuild ==
  /\ cbPc = "split"
  /\ cbChunks' = buildChunksFromBlocks(cbBlocks, cbTarget, cbMax)
  /\ cbPc' = "built"
  /\ UNCHANGED <<mainVars, cbText, cbTarget, cbMax, cbBlocks>>

NextChunks == CbSplit \/ CbBuild

SpecChunks == InitChunks /\ [][NextChunks]_vars

(***************************************************************************)
(* Helpers of the properties.                                              *)
(***************************************************************************)
Range(f) == {f[k] : k \in DOMAIN f}

\* the entries of calls that reached the remote service
RemoteCalls == {n \in 1..Len(calls) : calls[n][1] # "skip"}

\* how many times operation op was invoked for index k in this invocation
CountOps(op, k) ==
  Cardinality({n \in 1..Len(calls) : calls[n][1] = op /\ calls[n][2] = k})

\* the last n characters of a text (the whole text when it is shorter)
LastChars(s, n) ==
  IF n >= Len(s) THEN s ELSE [k \in 1..n |-> s[Len(s) - n + k]]

\* the previous invocation ran to completion and no part file was deleted
\* between it and this one, nor since
CleanRerun == afterDone /\ startDeleted = {} /\ deleted = {}

\* the process is between the start of the work on chunk i and its checkpoint
InBody == pc \in {"summarize", "summarized", "expand", "expanded"}

\* the text a pass (first pass and, where it was short, its expansion) ends in
FinalOf(p) ==
  IF Len(p.first) < cfg.minSummaryChars THEN p.expanded ELSE p.first

(***************************************************************************)
(* C1  Idempotence.  When an invocation follows one that ran to completion *)
(* and no part file was deleted in between, it invokes no summarize and no *)
(* expand, makes no attempt on the remote service, writes no part file,    *)
(* does not abort, leaves every part file as it found it, and the combined *)
(* document it writes equals the one it found.                             *)
(***************************************************************************)
C1_Idempotence ==
  CleanRerun =>
    /\ RemoteCalls = {}
    /\ nAttempts = 0
    /\ writes = <<>>
    /\ pc # "aborted"
    /\ partFiles = startParts
    /\ (pc = "done" => combinedFile = startCombined)

C1_Witness ==
  /\ CleanRerun
  /\ pc = "done"
  /\ runNo = 2
  /\ Len(chunks) = 2
  /\ DOMAIN partFiles = {0, 1}
  /\ Len(calls) = 2

(***************************************************************************)
(* C2  Resume correctness, for a remote service that returns the same text *)
(* for the same request.  An invocation calls the service and writes only  *)
(* for indices whose part was missing when it started (after a completed   *)
(* run: the deleted ones), and leaves every other part file untouched.     *)
(* Once some run has summarized every chunk itself (ref), every summarize  *)
(* of a later run passes the bridge that run passed for the index, and a   *)
(* later run that completes leaves the part files and the combined         *)
(* document equal to that run's.                                           *)
(***************************************************************************)
C2_ResumeCorrect ==
  /\ \A n \in RemoteCalls : ~exists(startParts, calls[n][2])
  /\ afterDone => \A n \in RemoteCalls : calls[n][2] \in startDeleted
  /\ \A w \in Range(writes) : ~exists(startParts, w)
  /\ afterDone => Range(writes) \subseteq startDeleted
  /\ \A k \in DOMAIN startParts \ deleted :
       exists(partFiles, k) /\ partFiles[k] = startParts[k]
  /\ ref.set =>
       /\ \A n \in RemoteCalls :
            calls[n][1] = "summarize" => calls[n] \in Range(ref.calls)
       /\ (pc = "done" /\ deleted = {}) =>
            partFiles = ref.parts /\ combinedFile = ref.combined

C2_Witness ==
  /\ pc = "done"
  /\ afterDone
  /\ ref.set
  /\ startDeleted = {1}
  /\ deleted = {}
  /\ cfg.bridgeChars = 1
  /\ writes = <<1>>
  /\ calls[1] = <<"skip", 0, <<>>>>
  /\ calls[2] = <<"summarize", 1, <<"b">>>>
  /\ CountOps("expand", 1) = 1

(***************************************************************************)
(* C3  Abort safety.  While chunk i is being summarized or expanded, and   *)
(* after the run aborted on it, there is no part file for i; an aborted    *)
(* run wrote parts only for indices below i; every part file that existed  *)
(* when the invocation started is unchanged; and every part this           *)
(* invocation wrote holds the final text of its pass: the first-pass text  *)
(* when that reached the minimum, else the text a successful expand        *)
(* returned, never a first-pass text under the minimum.                    *)
(***************************************************************************)
C3_AbortSafety ==
  /\ (InBody \/ pc = "aborted") => ~exists(partFiles, i)
  /\ pc = "aborted" => \A w \in Range(writes) : w < i
  /\ \A k \in DOMAIN startParts \ deleted :
       exists(partFiles, k) /\ partFiles[k] = startParts[k]
  /\ \A w \in Range(writes) \ deleted :
       /\ exists(partFiles, w)
       /\ FinalOf(passes[w]) # NULL
       /\ partFiles[w] = FinalOf(passes[w])

C3_Witness ==
  /\ pc = "aborted"
  /\ i = 1
  /\ writes = <<0>>
  /\ calls[Len(calls)] = <<"expand", 1, <<>>>>
  /\ thrown = INTERNAL_ERROR
  /\ nAttempts = tries
  /\ DOMAIN partFiles = {0}

(***************************************************************************)
(* C4  A part is written once and never overwritten.  No step of any       *)
(* invocation changes or removes a part file that exists (only the user's  *)
(* deletion removes one), and an invocation writes a part only for an      *)
(* index that had no part file when it started, each at most once.         *)
(***************************************************************************)
C4_WriteOnce ==
  [][ /\ nDeletes' = nDeletes =>
           \A k \in DOMAIN partFiles :
             exists(partFiles', k) /\ partFiles'[k] = partFiles[k]
      /\ \A n \in 1..Len(writes') :
           /\ ~exists(startParts', writes'[n])
           /\ \A m \in 1..Len(writes') : writes'[m] = writes'[n] => m = n
    ]_vars

C4_Witness ==
  /\ runNo = 2
  /\ pc = "done"
  /\ exists(startParts, 0)
  /\ ~exists(startParts, 1)
  /\ writes = <<1>>
  /\ partFiles[0] = startParts[0]

(***************************************************************************)
(* C5  Ordering guarantee.  An invocation handles the indices in strictly  *)
(* ascending order, and the bridge passed to summarize for index k is      *)
(* empty for k = 0 and otherwise the last BRIDGE_CHARS characters of the   *)
(* part of index k - 1, whether that part was found or written by this     *)
(* invocation.                                                             *)
(***************************************************************************)
C5_Ordering ==
  /\ \A m, n \in 1..Len(calls) :
       m < n =>
         /\ calls[m][2] <= calls[n][2]
         /\ calls[m][2] = calls[n][2] =>
              calls[m][1] = "summarize" /\ calls[n][1] = "expand"
  /\ \A n \in 1..Len(calls) :
       calls[n][1] = "summarize" =>
         LET k == calls[n][2]
         IN  IF k = 0
               THEN calls[n][3] = <<>>
               ELSE /\ deleted = {} => exists(partFiles, k - 1)
                    /\ exists(partFiles, k - 1) =>
                         calls[n][3] = LastChars(partFiles[k - 1], cfg.bridgeChars)

C5_Witness ==
  /\ Len(calls) >= 2
  /\ calls[1] = <<"skip", 0, <<>>>>
  /\ calls[2] = <<"summarize", 1, <<"b">>>>
  /\ partFiles[0] = <<"a", "b">>
  /\ pc = "summarize"

(***************************************************************************)
(* C6  Length enforcement.  For each chunk an invocation summarizes,       *)
(* summarize is invoked once; expand is invoked once when the first-pass   *)
(* text is shorter than the minimum and never otherwise; the part written  *)
(* in the first case is the text that one expand returned, even when it    *)
(* is still shorter than the minimum, and the first-pass text otherwise.   *)
(***************************************************************************)
C6_LengthEnforcement ==
  /\ \A k \in DOMAIN passes :
       /\ CountOps("summarize", k) = 1
       /\ CountOps("expand", k) <= 1
       /\ CountOps("expand", k) = 1 => Len(passes[k].first) < cfg.minSummaryChars
       /\ passes[k].expanded # NULL => CountOps("expand", k) = 1
  /\ \A w \in Range(writes) :
       /\ CountOps("expand", w) =
            (IF Len(passes[w].first) < cfg.minSummaryChars THEN 1 ELSE 0)
       /\ exists(partFiles, w) =>
            partFiles[w] = (IF Len(passes[w].first) < cfg.minSummaryChars
                              THEN passes[w].expanded
                              ELSE passes[w].first)

C6_Witness ==
  /\ cfg.minSummaryChars = 2
  /\ 0 \in Range(writes)
  /\ passes[0].first = <<"a">>
  /\ passes[0].expanded = <<"a">>
  /\ partFiles[0] = <<"a">>
  /\ CountOps("expand", 0) = 1
  /\ pc = "loop"

(***************************************************************************)
(* C7  Chunk size bound.  Every chunk the Chunk Builder returns, for       *)
(* thresholds targetChars <= maxChunkChars, is at most maxChunkChars long. *)
(***************************************************************************)
C7_ChunkSizeBound ==
  cbPc = "built" =>
    /\ cbTarget <= cbMax
    /\ \A n \in 1..Len(cbChunks) : Len(cbChunks[n]) <= cbMax

\* a chunk of two blocks and, after it, an oversized block cut in pieces
C7_Witness ==
  /\ cbPc = "built"
  /\ Len(cbBlocks) = 3
  /\ Len(cbChunks) = 3
  /\ cbChunks[1] = join(SubSeq(cbBlocks, 1, 2), BLOCK_SEP)
  /\ Len(cbBlocks[3]) > cbMax
  /\ Len(cbChunks[2]) = cbMax
  /\ cbChunks[2] \o cbChunks[3] = cbBlocks[3]

(***************************************************************************)
(* C8  Chunk coverage.  The chunks, read in order, are the blocks in       *)
(* order: each chunk is either some consecutive whole blocks joined by the *)
(* blank-line separator, or one of the consecutive pieces of a single      *)
(* block, the pieces concatenating to that block; no block is dropped,     *)
(* duplicated or reordered.                                                *)
(***************************************************************************)
RECURSIVE Covers(_, _)
Covers(cs, bs) ==
  IF Len(bs) = 0 THEN Len(cs) = 0
  ELSE IF Len(cs) = 0 THEN FALSE
  ELSE \/ \E g \in 1..Len(bs) :
            /\ cs[1] = join(SubSeq(bs, 1, g), BLOCK_SEP)
            /\ Covers(Tail(cs), SubSeq(bs, g + 1, Len(bs)))
       \/ \E m \in 2..Len(cs) :
            /\ join(SubSeq(cs, 1, m), <<>>) = bs[1]
            /\ Covers(SubSeq(cs, m + 1, Len(cs)), Tail(bs))

C8_ChunkCoverage == cbPc = "built" => Covers(cbChunks, cbBlocks)

\* a block held in the buffer is flushed before an oversized block is cut
C8_Witness ==
  /\ cbPc = "built"
  /\ Len(cbBlocks) = 2
  /\ Len(cbBlocks[2]) > cbMax
  /\ Len(cbChunks) = 3
  /\ cbChunks[1] = cbBlocks[1]
  /\ Len(cbChunks[3]) < cbMax

(***************************************************************************)
(* C9  Transient recovery.  When withRetries returns after k failed        *)
(* attempts it has made k + 1 attempts and slept k times, k < tries, and   *)
(* no error of a remote call has surfaced; an error of the kinds the       *)
(* claim calls retryable (429, 5xx, a transient network signature) leaves  *)
(* withRetries only from the attempt numbered tries.                       *)
(***************************************************************************)
RetryableByClaim(e) ==
  e \in {RATE_LIMIT, INTERNAL_ERROR, CONNECTION_RESET, TIMEOUT_ERROR,
         DOWNLOAD_TIMEOUT}

C9_TransientRecovery ==
  /\ wr \in {"running", "sleeping"} =>
       nAttempts = nFails /\ nDelays = nFails
  /\ wr = "returned" =>
       /\ nAttempts = nFails + 1
       /\ nDelays = nFails
       /\ nFails < tries
       /\ thrown \in {NO_ERROR, EMPTY_OUTPUT, EMPTY_EXPANSION}
       /\ thrown = NO_ERROR => pc # "aborted"
  /\ (wr = "threw" /\ RetryableByClaim(thrown)) => nAttempts = tries

C9_Witness ==
  /\ wr = "returned"
  /\ pc = "summarized"
  /\ nFails = 2
  /\ nAttempts = 3
  /\ nDelays = 2
  /\ thrown = NO_ERROR

(***************************************************************************)
(* C10  Non-retryable errors propagate immediately.  As claimed: once an   *)
(* attempt has failed with status 400, withRetries has thrown that error,  *)
(* the run has aborted, and no attempt and no sleep followed the failure.  *)
(* This fails for a status-400 error whose message carries a transient     *)
(* signature (timeout), which the code retries.  As amended: the same, for *)
(* a status-400 error whose message carries no such signature.             *)
(***************************************************************************)
PropagatedAtOnce ==
  /\ wr = "threw"
  /\ pc = "aborted"
  /\ thrown = lastErr
  /\ nAttempts = nFails
  /\ nDelays = nFails - 1

C10_Original ==
  (lastErr.hasStatus /\ lastErr.status = 400) => PropagatedAtOnce

C10_Amended ==
  ( /\ lastErr.hasStatus
    /\ lastErr.status = 400
    /\ ~matchesTransient(msgOf(lastErr)) )
    => PropagatedAtOnce

C10_Witness ==
  /\ pc = "aborted"
  /\ thrown = BAD_REQUEST
  /\ lastErr = thrown
  /\ nAttempts = 1
  /\ nDelays = 0
  /\ writes = <<>>

(***************************************************************************)
(* C11  Bounded retry.  A withRetries makes at most tries attempts and at  *)
(* most tries - 1 sleeps, and it always ends (returns or throws).  When it *)
(* throws an error of a retryable kind, every one of its tries attempts    *)
(* failed, it slept tries - 1 times, the error thrown is the error of the  *)
(* last attempt, and the run is aborted.                                   *)
(***************************************************************************)
RetryBounded ==
  /\ nAttempts <= tries
  /\ nDelays <= tries - 1
  /\ (wr = "threw" /\ RetryableByClaim(thrown)) =>
       /\ nAttempts = tries
       /\ nFails = tries
       /\ nDelays = tries - 1
       /\ thrown = lastErr
       /\ pc = "aborted"

C11_BoundedRetry ==
  /\ []RetryBounded
  /\ wr \in {"running", "sleeping"} ~> wr \in {"returned", "threw"}

C11_Witness ==
  /\ wr = "threw"
  /\ pc = "aborted"
  /\ thrown = INTERNAL_ERROR
  /\ nAttempts = tries
  /\ nDelays = tries - 1
  /\ writes = <<>>

(***************************************************************************)
(* C12  Empty output is fatal and never retried.  When the run has ended   *)
(* with the empty-output error of summarize or of expand, the remote call  *)
(* of that operation returned (withRetries made no attempt and no sleep    *)
(* after it), the run is aborted and no part exists for the index at hand; *)
(* and no text that is empty after trimming is ever taken as a first pass, *)
(* as an expansion, or written as a part.                                  *)
(***************************************************************************)
EmptyOutputOf ==
  [summarize |-> EMPTY_OUTPUT, expand |-> EMPTY_EXPANSION]

C12_EmptyOutputFatal ==
  /\ thrown \in {EMPTY_OUTPUT, EMPTY_EXPANSION} =>
       /\ thrown = EmptyOutputOf[calls[Len(calls)][1]]
       /\ pc = "aborted"
       /\ wr = "returned"
       /\ nAttempts = nFails + 1
       /\ nDelays = nFails
       /\ ~exists(partFiles, i)
       /\ i \notin Range(writes)
       /\ calls[Len(calls)][2] = i
  /\ \A k \in DOMAIN passes :
       /\ Len(trim(passes[k].first)) > 0
       /\ passes[k].expanded # NULL => Len(trim(passes[k].expanded)) > 0
  /\ \A k \in DOMAIN partFiles : Len(trim(partFiles[k])) > 0

\* the expansion of the second chunk came back blank after one retried failure
C12_Witness ==
  /\ thrown = EMPTY_EXPANSION
  /\ pc = "aborted"
  /\ i = 1
  /\ calls[Len(calls)] = <<"expand", 1, <<>>>>
  /\ nFails = 1
  /\ nDelays = 1
  /\ DOMAIN partFiles = {0}

(***************************************************************************)
(* C13  Three speaker turns, T = 100, M = 200, minimum 0.  As claimed:     *)
(* when the three blocks are each shorter than T, a first run from an      *)
(* empty folder that completes has built one chunk, made one summarize     *)
(* call and no expand call, written one part, and written the combined     *)
(* document "Part 1", a blank line, the summary.  This fails when the      *)
(* first two blocks joined reach T (the buffer is flushed before the third *)
(* block) or when the three joined exceed M.  As amended: the same, for    *)
(* blocks whose first two, joined by the separator, are shorter than T.    *)
(***************************************************************************)
ScenarioRun(bs) ==
  /\ cfg.targetChars = 100
  /\ cfg.maxChunkChars = 200
  /\ cfg.minSummaryChars = 0
  /\ Len(bs) = 3
  /\ \A k \in 1..3 : Len(bs[k]) < cfg.targetChars
  /\ runNo = 1
  /\ pc = "done"
  /\ deleted = {}

OneChunkOnePart ==
  /\ Len(chunks) = 1
  /\ calls = << <<"summarize", 0, <<>>>> >>
  /\ writes = <<0>>
  /\ DOMAIN partFiles = {0}
  /\ 0 \in DOMAIN passes
  /\ partFiles[0] = passes[0].first
  /\ combinedFile = <<"P", "a", "r", "t", " ", "1", NL, NL>> \o passes[0].first
  /\ missing = {}

C13_Original == ScenarioRun(splitIntoBlocks(transcript)) => OneChunkOnePart

C13_Amended ==
  LET bs == splitIntoBlocks(transcript)
  IN  ( /\ ScenarioRun(bs)
        /\ Len(bs[1]) + Len(BLOCK_SEP) + Len(bs[2]) < cfg.targetChars )
        => OneChunkOnePart

\* blocks of 13, 13 and 99 characters went into one chunk of 129
C13_Witness ==
  /\ ScenarioRun(splitIntoBlocks(transcript))
  /\ transcript = scenarioTranscript(<<2, 2, 88>>)
  /\ Len(chunks[1]) = 129
  /\ OneChunkOnePart
  /\ combinedFile = <<"P", "a", "r", "t", " ", "1", NL, NL, "a", "b">>

(***************************************************************************)
(* C14  Empty run.  For a transcript none of whose lines is a speaker      *)
(* line, the transcript splits into zero blocks and every invocation has   *)
(* zero chunks, makes no remote call, writes no part, raises no error,     *)
(* records totalChunks = 0 in the run metadata, and, once done, has        *)
(* written an empty combined document.                                     *)
(***************************************************************************)
NoSpeakerLine(text) ==
  LET lines == splitLines(replaceCRLF(text))
  IN  \A k \in 1..Len(lines) : ~looksLikeSpeakerLine(lines[k])

C14_EmptyRun ==
  (NoSpeakerLine(transcript) /\ runNo >= 1) =>
    /\ splitIntoBlocks(transcript) = <<>>
    /\ chunks = <<>>
    /\ pc \in {"loop", "done"}
    /\ thrown = NO_ERROR
    /\ calls = <<>>
    /\ writes = <<>>
    /\ partFiles = NO_PARTS
    /\ metaFile.totalChunks = 0
    /\ pc = "done" => (combinedFile = <<>> /\ missing = {})

\* the second invocation on the transcript "SPEAKER:" is done
C14_Witness ==
  /\ transcript = SPEAKER_TAG
  /\ NoSpeakerLine(transcript)
  /\ runNo = 2
  /\ pc = "done"
  /\ combinedFile = <<>>
  /\ startCombined = <<>>
  /\ metaFile.totalChunks = 0

(***************************************************************************)
(* C15  Combine with gaps.  The step that combines (lines 422-433) writes, *)
(* for the n chunks of the run, n sections in ascending order joined by a  *)
(* blank line; section k is the label "Part k", followed, when the part    *)
(* file of index k - 1 exists, by a blank line and the text of the part,   *)
(* and by nothing when it does not.  A missing part is named in the        *)
(* warning and raises no error: the run is done.                           *)
(***************************************************************************)
SectionOf(files, k) ==
  <<"P", "a", "r", "t", " ">> \o toDigits(k)
    \o (IF (k - 1) \in DOMAIN files THEN <<NL, NL>> \o files[k - 1] ELSE <<>>)

RECURSIVE SectionsUpTo(_, _)
SectionsUpTo(files, n) ==
  IF n = 0 THEN <<>>
  ELSE IF n = 1 THEN SectionOf(files, 1)
  ELSE SectionsUpTo(files, n - 1) \o <<NL, NL>> \o SectionOf(files, n)

C15_CombineWithGaps ==
  [][ (pc = "loop" /\ pc' = "done") =>
        /\ combinedFile' = SectionsUpTo(partFiles', Len(chunks))
        /\ missing' = {k \in 1..Len(chunks) : (k - 1) \notin DOMAIN partFiles'}
        /\ thrown' = NO_ERROR ]_vars

\* part 1 was deleted during the second run: a gap before part 2
C15_Witness ==
  /\ pc = "done"
  /\ Len(chunks) = 2
  /\ missing = {1}
  /\ DOMAIN partFiles = {1}
  /\ combinedFile = <<"P", "a", "r", "t", " ", "1", NL, NL,
                      "P", "a", "r", "t", " ", "2", NL, NL>> \o partFiles[1]

(***************************************************************************)
(* C16  Oversized block slicing.  A block of length L > M is emitted as    *)
(* ceil(L / M) consecutive chunks, piece j being the characters            *)
(* (j - 1) * M + 1 .. min(j * M, L) of the block (so each of length M but  *)
(* the last, of length L - M * (ceil(L / M) - 1)); the chunk before the    *)
(* first piece ends with the block before, the chunk after the last piece  *)
(* starts with the block after: the buffer was flushed first and no        *)
(* neighbouring block is merged into a piece.                              *)
(***************************************************************************)
CeilDiv(a, b) == (a + b - 1) \div b

PieceOf(block, j, m) == SubSeq(block, (j - 1) * m + 1, Min(j * m, Len(block)))

RECURSIVE SlicedInPlace(_, _, _)
SlicedInPlace(cs, bs, m) ==
  IF Len(bs) = 0 THEN Len(cs) = 0
  ELSE IF Len(bs[1]) > m
    THEN LET n == CeilDiv(Len(bs[1]), m)
         IN  /\ Len(cs) >= n
             /\ \A j \in 1..n : cs[j] = PieceOf(bs[1], j, m)
             /\ \A j \in 1..(n - 1) : Len(cs[j]) = m
             /\ Len(cs[n]) = Len(bs[1]) - m * (n - 1)
             /\ SlicedInPlace(SubSeq(cs, n + 1, Len(cs)), Tail(bs), m)
    ELSE /\ Len(cs) >= 1
         /\ \E g \in 1..Len(bs) :
              /\ \A k \in 1..g : Len(bs[k]) <= m
              /\ cs[1] = join(SubSeq(bs, 1, g), BLOCK_SEP)
              /\ SlicedInPlace(Tail(cs), SubSeq(bs, g + 1, Len(bs)), m)

C16_OversizedSlicing ==
  cbPc = "built" => SlicedInPlace(cbChunks, cbBlocks, cbMax)

\* a block of 10 in the buffer, then a block of 27 with M = 12: 10, 12, 12, 3
C16_Witness ==
  /\ cbPc = "built"
  /\ cbMax = 12
  /\ Len(cbBlocks) = 3
  /\ Len(cbBlocks[1]) = 10
  /\ Len(cbBlocks[2]) = 27
  /\ Len(cbChunks) = 5
  /\ cbChunks[1] = cbBlocks[1]
  /\ [k \in 2..4 |-> Len(cbChunks[k])] = [k \in 2..4 |-> IF k = 4 THEN 3 ELSE 12]
  /\ cbChunks[2] \o cbChunks[3] \o cbChunks[4] = cbBlocks[2]
  /\ cbChunks[5] = cbBlocks[3]

(***************************************************************************)
(* C17  Flush conditions.  A buffer that a block of length <= M arrives at *)
(* is flushed before the block is added if and only if                     *)
(* length(buffer) + 2 + length(block) > M or length(buffer) >= T, and the  *)
(* block is appended after the separator otherwise.  As claimed, it        *)
(* follows that every chunk followed by a block of length <= M has length  *)
(* >= T or cannot take that block within M.  This fails for the last piece *)
(* of an oversized block, which is pushed whatever its length.  As         *)
(* amended, it follows for every chunk that is not a piece of an oversized *)
(* block.                                                                  *)
(***************************************************************************)
MustFlush(buffer, block, t, m) ==
  Len(buffer) + Len(BLOCK_SEP) + Len(block) > m \/ Len(buffer) >= t

\* cs chunks bs by the rule; when pieces holds, the last piece of an
\* oversized block is held to the consequence as well
RECURSIVE FlushRule(_, _, _, _, _)
FlushRule(cs, bs, t, m, pieces) ==
  IF Len(bs) = 0 THEN Len(cs) = 0
  ELSE IF Len(bs[1]) > m
    THEN LET n == CeilDiv(Len(bs[1]), m)
         IN  /\ Len(cs) >= n
             /\ (pieces /\ Len(bs) > 1 /\ Len(bs[2]) <= m)
                  => MustFlush(cs[n], bs[2], t, m)
             /\ FlushRule(SubSeq(cs, n + 1, Len(cs)), Tail(bs), t, m, pieces)
    ELSE /\ Len(cs) >= 1
         /\ \E g \in 1..Len(bs) :
              /\ \A k \in 1..g : Len(bs[k]) <= m
              /\ cs[1] = join(SubSeq(bs, 1, g), BLOCK_SEP)
              /\ \A j \in 1..(g - 1) :
                   ~MustFlush(join(SubSeq(bs, 1, j), BLOCK_SEP), bs[j + 1], t, m)
              /\ (g < Len(bs) /\ Len(bs[g + 1]) <= m)
                   => MustFlush(cs[1], bs[g + 1], t, m)
              /\ FlushRule(Tail(cs), SubSeq(bs, g + 1, Len(bs)), t, m, pieces)

C17_Original ==
  cbPc = "built" => FlushRule(cbChunks, cbBlocks, cbTarget, cbMax, TRUE)

C17_Amended ==
  cbPc = "built" => FlushRule(cbChunks, cbBlocks, cbTarget, cbMax, FALSE)

\* T = 25, M = 40: blocks of 10 and 13 share a chunk of 25, which is flushed
\* for its length when a block of 10 arrives that would have fitted
C17_Witness ==
  /\ cbPc = "built"
  /\ cbTarget = 25
  /\ cbMax = 40
  /\ Len(cbBlocks) = 3
  /\ Len(cbBlocks[1]) = 10
  /\ Len(cbBlocks[2]) = 13
  /\ Len(cbBlocks[3]) = 10
  /\ cbChunks = <<cbBlocks[1] \o BLOCK_SEP \o cbBlocks[2], cbBlocks[3]>>

(***************************************************************************)
(* C18  Backoff schedule.  Every sleep of withRetries follows a failed     *)
(* attempt numbered a with 1 <= a < tries, is the a-th sleep and lasts     *)
(* 750 * 2^(a - 1) + j milliseconds for an integer j of 0..249; it is      *)
(* longer than the longest sleep that can follow attempt a - 1, the one    *)
(* before it in the same withRetries; and sleeps stand between attempts    *)
(* only: attempt a + 1 follows the sleep, and a withRetries that ended has *)
(* slept once less than it attempted.                                      *)
(***************************************************************************)
SleepsBetweenAttempts ==
  /\ wr = "running" => nDelays = nAttempts /\ delay = 0
  /\ wr = "sleeping" =>
       /\ nDelays = nAttempts
       /\ nDelays = attempt
       /\ attempt < tries
       /\ \E j \in 0..249 : delay = 750 * 2^(attempt - 1) + j
  /\ wr \in {"returned", "threw"} => nDelays = nAttempts - 1 /\ delay = 0

\* the longest sleep that can follow the failed attempt numbered a
LongestSleep(a) == 750 * 2^(a - 1) + 249

SleepStep ==
  /\ nDelays' = nDelays + 1 =>
       /\ wr = "running"
       /\ wr' = "sleeping"
       /\ attempt' = attempt
       /\ nAttempts' = attempt
       /\ attempt > 1 => delay' > LongestSleep(attempt - 1)
  /\ (wr = "sleeping" /\ wr' # "sleeping") =>
       /\ wr' = "running"
       /\ attempt' = attempt + 1
       /\ nAttempts' = nAttempts
       /\ nDelays' = nDelays

C18_BackoffSchedule == []SleepsBetweenAttempts /\ [][SleepStep]_vars

\* the fifth and last sleep of a withRetries: 12000 ms and a jitter of 124 ms
C18_Witness ==
  /\ wr = "sleeping"
  /\ attempt = tries - 1
  /\ nDelays = 5
  /\ delay = 12124

(***************************************************************************)
(* C19  Checkpoint reuse ignores content.  In a run folder (one run        *)
(* identity), whatever the text of the input now is, an index the          *)
(* invocation has gone past was skipped if its part existed when the       *)
(* invocation started and was summarized if not; a skipped index gets no   *)
(* remote call, its part is left as it was, and the summarize call for the *)
(* next index carries the tail of that part as its bridge.  This holds     *)
(* when the part was written for a chunk text other than the present one.  *)
(***************************************************************************)
C19_ReuseIgnoresContent ==
  \A k \in 0..(Len(chunks) - 1) :
    k < i =>
      IF exists(startParts, k)
        THEN /\ CountOps("skip", k) = 1
             /\ CountOps("summarize", k) = 0
             /\ CountOps("expand", k) = 0
             /\ k \notin Range(writes)
             /\ exists(partFiles, k) => partFiles[k] = startParts[k]
             /\ \A n \in 1..Len(calls) :
                  (calls[n][1] = "summarize" /\ calls[n][2] = k + 1) =>
                    calls[n][3] = LastChars(startParts[k], cfg.bridgeChars)
        ELSE /\ CountOps("skip", k) = 0
             /\ CountOps("summarize", k) = 1

\* part 1 was written for "SPEAKER: A\nhi"; the input was replaced by one of
\* the same run identity whose first chunk is "SPEAKER: B\nyo"
C19_Witness ==
  /\ pc = "done"
  /\ runNo = 2
  /\ safeFolderNameFromPath(inputPath) = <<"t">>
  /\ inputPath # INPUT_TRANSCRIPT_PATH
  /\ chunks[1] = TURN_B
  /\ sources[0] = TURN
  /\ calls = << <<"skip", 0, <<>>>>, <<"summarize", 1, <<"b">>>> >>
  /\ partFiles[0] = <<"a", "b">>
  /\ startParts[0] = partFiles[0]

(***************************************************************************)
(* C20  Prefix completeness.  Whatever part files an invocation found, as  *)
(* long as no part file has been deleted since it started, every index     *)
(* below its current index has a part on disk, and every remote call it    *)
(* made was for an index all of whose predecessors had a part.  Part files *)
(* are deleted between invocations only, so an invocation that reaches the *)
(* combining step finds every part and names no missing index.             *)
(***************************************************************************)
C20_PrefixComplete ==
  /\ (runNo >= 1 /\ deleted = {}) =>
       /\ \A k \in 0..(i - 1) : exists(partFiles, k)
       /\ \A n \in RemoteCalls :
            \A k \in 0..(calls[n][2] - 1) : exists(partFiles, k)
       /\ pc = "done" => \A k \in 0..(Len(chunks) - 1) : exists(partFiles, k)
  /\ pc = "done" => missing = {}

\* the invocation found part 2 without part 1, summarized chunk 1, skipped
\* chunk 2 and combined the two
C20_Witness ==
  /\ pc = "done"
  /\ deleted = {}
  /\ DOMAIN startParts = {1}
  /\ DOMAIN partFiles = {0, 1}
  /\ Len(calls) = 2
  /\ calls[1][1] = "summarize"
  /\ calls[2][1] = "skip"
  /\ missing = {}

====
